---- MODULE Spec2Model ----
(***************************************************************************)
(* State-machine model of deduplicate_utils.py: build_id_lookup,           *)
(* collect_groups, write_dedup_jsonl and update_duplicate_flags.           *)
(* Each function is one specification over the shared variables; the       *)
(* variables a function does not use keep their idle values.               *)
(***************************************************************************)
EXTENDS Integers, Sequences, FiniteSets, TLC

VARIABLES
    pc,         \* position of the running function
    lookup,     \* build_id_lookup's result / write_dedup_jsonl's argument
    \* collect_groups
    neighbors,  \* defaultdict(set): faiss id -> set of faiss ids
    order,      \* insertion order of the keys of neighbors
    qi,         \* index of the next query row
    visited, groups, nodeIdx, stack, comp,
    \* write_dedup_jsonl
    group,      \* the component the aggregation loop handled last
    gi,         \* number of components handled
    pair_map,   \* defaultdict(list): (fid_a, fid_b) -> clip pairs
    pairOrder,  \* insertion order of the keys of pair_map
    opened,     \* whether open(output_path, "w") has returned
    outFile,    \* content of output_path, one record per line
    usedIds,    \* the ids of the components handled so far
    wi,         \* index of the next key of pair_map to write
    \* update_duplicate_flags
    descFile,   \* content of descriptions_path, one line per element
    descFile0,  \* history: descriptions_path as it was before the call
    updates,    \* the mapping file_id -> duplicate value
    entries, li, ui, wj, returned,
    \* build_id_lookup
    entry,      \* the database entry the loop handled last
    di          \* number of database entries handled

gVars == <<neighbors, order, qi, visited, groups, nodeIdx, stack, comp>>
wVars == <<group, gi, pair_map, pairOrder, opened, outFile, usedIds, wi>>
fVars == <<descFile, descFile0, updates, entries, li, ui, wj, returned>>
bVars == <<entry, di>>
vars == <<pc, lookup, gVars, wVars, fVars, bVars>>

\* ------------------------------------------------------------------ bounds
\* vector ids are 1..MaxId
MaxId == 3
\* query rows of one range search
NumRows == 2
\* labels one query row reports
MaxRowLen == 3
\* keys of the lookup handed to write_dedup_jsonl are 1..MaxVec
MaxVec == 4
\* file ids are 1..MaxFile
MaxFile == 2
\* lines of the descriptions file
MaxLines == 2
\* entries of the database handed to build_id_lookup
MaxEntries == 2
\* components handed to write_dedup_jsonl: as many as the ids 1..MaxVec can
\* fill with disjoint components of two ids
NumGroups == MaxVec \div 2

\* ----------------------------------------------------------------- helpers
\* Python's None
None == -1

\* the padding label of a range search
Sentinel == -1

VectorIds == 1..MaxId

Labels == VectorIds \cup {Sentinel}

\* every listing of the finite set S: the orders in which Python may iterate it
Listings(S) == {s \in [1..Cardinality(S) -> S] : \A i, j \in 1..Cardinality(S) : s[i] = s[j] => i = j}

Range(s) == {s[i] : i \in DOMAIN s}

SeqsUpTo(S, n) == UNION {[1..k -> S] : k \in 0..n}

\* idle values of the variables of the functions that are not running
GIdle ==
    /\ neighbors = <<>> /\ order = <<>> /\ qi = 0 /\ visited = {}
    /\ groups = <<>> /\ nodeIdx = 0 /\ stack = <<>> /\ comp = <<>>

WIdle ==
    /\ group = <<>> /\ gi = 0 /\ pair_map = <<>> /\ pairOrder = <<>>
    /\ opened = FALSE /\ outFile = <<>> /\ usedIds = {} /\ wi = 0

FIdle ==
    /\ descFile = <<>> /\ descFile0 = <<>> /\ updates = <<>> /\ entries = <<>>
    /\ li = 0 /\ ui = 0 /\ wj = 0 /\ returned = <<>>

BIdle == entry = <<>> /\ di = 0

\* ========================================================================
\* collect_groups
\* ========================================================================

\* the rows a range search may report: labels[lims[qi]:lims[qi+1]]
Rows == SeqsUpTo(Labels, MaxRowLen)

\* neighbors[a].add(b) on a defaultdict(set): a missing key is created first
AddEdge(nb, a, b) ==
    IF a \in DOMAIN nb
    THEN [nb EXCEPT ![a] = @ \cup {b}]
    ELSE [k \in DOMAIN nb \cup {a} |-> IF k = a THEN {b} ELSE nb[k]]

AddKey(ord, a) == IF a \in Range(ord) THEN ord ELSE Append(ord, a)

\* the inner loop over one row, from position j
RECURSIVE RowEdges(_, _, _, _)
RowEdges(row, j, nb, ord) ==
    IF j > Len(row) THEN <<nb, ord>>
    ELSE LET qid == row[1]
             jid == row[j]
         IN IF jid = Sentinel \/ jid = qid
            THEN RowEdges(row, j + 1, nb, ord)
            ELSE RowEdges(row, j + 1,
                          AddEdge(AddEdge(nb, qid, jid), jid, qid),
                          AddKey(AddKey(ord, qid), jid))

InitGroups ==
    /\ pc = "build" /\ lookup = <<>>
    /\ GIdle /\ WIdle /\ FIdle /\ BIdle

\* one iteration of "for qi in range(len(embeddings))"
BuildRow ==
    /\ pc = "build" /\ qi < NumRows
    /\ \E row \in Rows :
         LET r == IF row = <<>> THEN <<neighbors, order>>
                  ELSE RowEdges(row, 1, neighbors, order)
         IN /\ neighbors' = r[1]
            /\ order' = r[2]
    /\ qi' = qi + 1
    /\ UNCHANGED <<pc, lookup, visited, groups, nodeIdx, stack, comp, wVars, fVars, bVars>>

\* the range is exhausted: len(embeddings) = qi
BuildDone ==
    /\ pc = "build"
    /\ pc' = "outer" /\ nodeIdx' = 1
    /\ UNCHANGED <<lookup, neighbors, order, qi, visited, groups, stack, comp, wVars, fVars, bVars>>

\* one iteration of "for node in neighbors", up to the while loop
OuterNext ==
    /\ pc = "outer" /\ nodeIdx <= Len(order)
    /\ IF order[nodeIdx] \in visited
       THEN /\ nodeIdx' = nodeIdx + 1
            /\ UNCHANGED <<pc, stack, comp>>
       ELSE /\ stack' = <<order[nodeIdx]>>
            /\ comp' = <<>>
            /\ pc' = "inner"
            /\ UNCHANGED nodeIdx
    /\ UNCHANGED <<lookup, neighbors, order, qi, visited, groups, wVars, fVars, bVars>>

\* a bug: stack = list(neighbors[cur] - visited), the pending nodes are lost
ExtendStack_Replace(rest, fresh) == Listings(fresh)

\* stack.extend(neighbors[cur] - visited): the set is appended in any order
ExtendStack(rest, fresh) == {rest \o s : s \in Listings(fresh)}

\* a bug: the popped node is never tested against visited
PopSkips_Never(cur, vis) == FALSE

\* "if cur in visited: continue"
PopSkips(cur, vis) == cur \in vis

\* one iteration of "while stack"
InnerStep ==
    /\ pc = "inner" /\ stack # <<>>
    /\ LET cur == stack[Len(stack)]
           rest == SubSeq(stack, 1, Len(stack) - 1)
       IN IF PopSkips(cur, visited)
          THEN /\ stack' = rest
               /\ UNCHANGED <<pc, visited, comp, neighbors, order>>
          ELSE IF cur \notin DOMAIN neighbors
          THEN \* neighbors[cur] creates a key while "for node in neighbors" runs
               /\ pc' = "RuntimeError"
               /\ UNCHANGED <<stack, visited, comp, neighbors, order>>
          ELSE /\ visited' = visited \cup {cur}
               /\ comp' = Append(comp, cur)
               /\ stack' \in ExtendStack(rest, neighbors[cur] \ visited')
               /\ UNCHANGED <<pc, neighbors, order>>
    /\ UNCHANGED <<lookup, qi, groups, nodeIdx, wVars, fVars, bVars>>

\* the while loop ends: groups.append(comp)
InnerDone ==
    /\ pc = "inner" /\ stack = <<>>
    /\ groups' = Append(groups, comp)
    /\ nodeIdx' = nodeIdx + 1
    /\ pc' = "outer"
    /\ UNCHANGED <<lookup, neighbors, order, qi, visited, stack, comp, wVars, fVars, bVars>>

\* return groups
OuterDone ==
    /\ pc = "outer" /\ nodeIdx > Len(order)
    /\ pc' = "done"
    /\ UNCHANGED <<lookup, gVars, wVars, fVars, bVars>>

NextGroups == BuildRow \/ BuildDone \/ OuterNext \/ InnerStep \/ InnerDone \/ OuterDone

SpecGroups == InitGroups /\ [][NextGroups]_vars

\* ---- properties of collect_groups

\* the ids that appear in at least one edge of the adjacency map
EdgeTouched ==
    {a \in Labels : \E b \in DOMAIN neighbors : a \in neighbors[b] \/ (a = b /\ neighbors[b] # {})}

\* the ids joined to the ids of S by a path of edges
RECURSIVE Reach(_)
Reach(S) ==
    LET T == S \cup UNION {neighbors[x] : x \in S \cap DOMAIN neighbors}
    IN IF T = S THEN S ELSE Reach(T)

SameGroup(a, b) == \E i \in DOMAIN groups : a \in Range(groups[i]) /\ b \in Range(groups[i])

\* C1: when collect_groups returns, the components partition the edge-touched
\* ids: their union is exactly the set of ids that appear in an edge of the
\* adjacency map, and no id occurs twice, in one component or in two.
C1_Partition ==
    pc = "done" =>
        /\ UNION {Range(groups[i]) : i \in DOMAIN groups} = EdgeTouched
        /\ \A i, j \in DOMAIN groups : \A k \in DOMAIN groups[i], l \in DOMAIN groups[j] :
              groups[i][k] = groups[j][l] => (i = j /\ k = l)

\* a run that returns one component of three ids joined in a cycle, and
\* leaves no vector id out
C1_Witness ==
    /\ pc = "done" /\ Len(groups) = 1 /\ Len(groups[1]) = 3
    /\ DOMAIN neighbors = VectorIds
    /\ \A a \in VectorIds : neighbors[a] = VectorIds \ {a}

\* C2: when collect_groups returns, every component is one connected
\* component of the neighbor graph: two ids share a component exactly when a
\* path of edges joins them, for every order the stack is extended in.
C2_ConnectedComponents ==
    pc = "done" =>
        /\ \A i \in DOMAIN groups :
              groups[i] # <<>> /\ Range(groups[i]) = Reach({groups[i][1]})
        /\ \A a, b \in DOMAIN neighbors : SameGroup(a, b) <=> b \in Reach({a})

\* a run that returns a component of three ids that starts at the middle of
\* a path, so that the stack held two pending ids at once
C2_Witness ==
    /\ pc = "done" /\ Len(groups) = 1 /\ Len(groups[1]) = 3
    /\ Cardinality(neighbors[groups[1][1]]) = 2
    /\ Cardinality(neighbors[groups[1][2]]) = 1

\* C4: the neighbor graph has no self-loop and the sentinel -1 is neither a
\* node nor an edge endpoint of it, and no component holds the sentinel.
C4_NoSentinelNoSelfLoop ==
    /\ \A n \in DOMAIN neighbors :
          n # Sentinel /\ n \notin neighbors[n] /\ Sentinel \notin neighbors[n]
    /\ \A i \in DOMAIN groups : Sentinel \notin Range(groups[i])

\* ========================================================================
\* write_dedup_jsonl
\* ========================================================================

Files == 1..MaxFile

FileName(f) == <<"name", f>>

\* a lookup record of clip v of video file f, as build_id_lookup makes it
ClipRecord(v, f) ==
    [file_id |-> f, file_name |-> FileName(f), clip_idx |-> v, faiss_id |-> v,
     media_type |-> "video", prefix |-> "", duration |-> 10 * f, variance |-> 0,
     start_s |-> v, end_s |-> v + 1]

\* the lookups: the ids 1..k for some k <= MaxVec, each a clip of some file,
\* the clips of one file indexed one after the other and the files in
\* ascending order (write_dedup_jsonl compares ids and file ids for equality
\* only, so every other lookup is one of these with its ids renamed)
Lookups ==
    UNION {{[v \in 1..k |-> ClipRecord(v, ff[v])] :
              ff \in {h \in [1..k -> Files] : \A v, w \in 1..k : v <= w => h[v] <= h[w]}} :
           k \in 0..MaxVec}

\* the components: lists of distinct ids, disjoint from the earlier ones
GroupsFrom(free) ==
    {g \in SeqsUpTo(free, Cardinality(free)) : \A i, j \in DOMAIN g : g[i] = g[j] => i = j}

\* entries = [lookup[i] for i in group if i in lookup]
RECURSIVE MappedEntries(_, _)
MappedEntries(g, lk) ==
    IF g = <<>> THEN <<>>
    ELSE (IF Head(g) \in DOMAIN lk THEN <<lk[Head(g)]>> ELSE <<>>) \o MappedEntries(Tail(g), lk)

\* file_ids = list(by_file.keys()): the file ids in first-seen order
RECURSIVE FileIdsOf(_)
FileIdsOf(ents) ==
    IF ents = <<>> THEN <<>>
    ELSE LET front == FileIdsOf(SubSeq(ents, 1, Len(ents) - 1))
             f == ents[Len(ents)].file_id
         IN IF f \in Range(front) THEN front ELSE Append(front, f)

\* by_file[f]
ByFile(ents, f) == SelectSeq(ents, LAMBDA e : e.file_id = f)

\* one side of a clip pair
ClipSide(c) ==
    [file_id |-> c.file_id, file_name |-> c.file_name, media_type |-> c.media_type,
     clip_idx |-> c.clip_idx, start_s |-> c.start_s, end_s |-> c.end_s]

ClipPair(ca, cb) == [original |-> ClipSide(ca), duplicate |-> ClipSide(cb)]

\* "for ca in clips_a: for cb in clips_b": the pairs in the order appended
CrossPairs(clips_a, clips_b) ==
    [k \in 1..(Len(clips_a) * Len(clips_b)) |->
        ClipPair(clips_a[((k - 1) \div Len(clips_b)) + 1], clips_b[((k - 1) % Len(clips_b)) + 1])]

\* a bug: "for j in range(i, len(file_ids))" pairs every file with itself
FileIndexPairs_FromI(n) ==
    LET RECURSIVE From(_, _)
        From(i, j) == IF i > n THEN <<>>
                      ELSE IF j > n THEN From(i + 1, i + 1)
                      ELSE <<<<i, j>>>> \o From(i, j + 1)
    IN From(1, 1)

\* "for i in range(n): for j in range(i + 1, n)", 1-based, in loop order
FileIndexPairs(n) ==
    LET RECURSIVE From(_, _)
        From(i, j) == IF i > n THEN <<>>
                      ELSE IF j > n THEN From(i + 1, i + 2)
                      ELSE <<<<i, j>>>> \o From(i, j + 1)
    IN From(1, 2)

\* a bug: pair_map[key] = clips, the list is overwritten instead of extended
ExtendPairs_Overwrite(pm, key, clips) ==
    [k \in DOMAIN pm \cup {key} |-> IF k = key THEN clips ELSE pm[k]]

\* pair_map[key].append(...) for every clip pair of clips, on a defaultdict(list)
ExtendPairs(pm, key, clips) ==
    IF key \in DOMAIN pm
    THEN [pm EXCEPT ![key] = @ \o clips]
    ELSE [k \in DOMAIN pm \cup {key} |-> IF k = key THEN clips ELSE pm[k]]

\* the loops over the file pairs of one component, from the k-th pair on
RECURSIVE AddFilePairs(_, _, _, _, _, _)
AddFilePairs(ps, k, file_ids, ents, pm, po) ==
    IF k > Len(ps) THEN <<pm, po>>
    ELSE LET fid_a == file_ids[ps[k][1]]
             fid_b == file_ids[ps[k][2]]
             key == <<fid_a, fid_b>>
         IN AddFilePairs(ps, k + 1, file_ids, ents,
                         ExtendPairs(pm, key, CrossPairs(ByFile(ents, fid_a), ByFile(ents, fid_b))),
                         AddKey(po, key))

\* the body of "for group in groups"
Aggregate(g, lk, pm, po) ==
    IF Len(g) <= 1 THEN <<pm, po>>
    ELSE LET ents == MappedEntries(g, lk)
             file_ids == FileIdsOf(ents)
         IN IF Len(ents) <= 1 THEN <<pm, po>>
            ELSE IF Len(file_ids) <= 1 THEN <<pm, po>>
            ELSE AddFilePairs(FileIndexPairs(Len(file_ids)), 1, file_ids, ents, pm, po)

\* durations of the lookup records of file f, in the order of lookup.values()
\* (the lookup is listed by ascending id)
FirstDuration(lk, f) ==
    LET ids == {v \in DOMAIN lk : lk[v].file_id = f}
    IN IF ids = {} THEN 0
       ELSE lk[CHOOSE v \in ids : \A w \in ids : v <= w].duration

\* the record of one key of pair_map
RecordOf(key, pm, lk) ==
    [original_file_id |-> key[1],
     original_file_name |-> pm[key][1].original.file_name,
     original_duration |-> FirstDuration(lk, key[1]),
     duplicate_file_id |-> key[2],
     duplicate_file_name |-> pm[key][1].duplicate.file_name,
     duplicate_duration |-> FirstDuration(lk, key[2]),
     clips |-> pm[key]]

\* json.dumps(record) + "\n": one line of the output
JsonLine(record) == [line |-> record]

\* what output_path held before the call: one line of an earlier run
PriorContent == <<JsonLine([original_file_id |-> 0, original_file_name |-> FileName(0),
                            original_duration |-> 0, duplicate_file_id |-> 0,
                            duplicate_file_name |-> FileName(0), duplicate_duration |-> 0,
                            clips |-> <<>>])>>

\* a bug: open(output_path, "a") keeps what the file held
OpenForWrite_Append(content) == content

\* open(output_path, "w") truncates the file
OpenForWrite(content) == <<>>

InitWrite ==
    /\ pc = "agg"
    /\ lookup \in Lookups
    /\ GIdle /\ FIdle /\ BIdle
    /\ group = <<>> /\ gi = 0 /\ pair_map = <<>> /\ pairOrder = <<>>
    /\ opened = FALSE /\ outFile = PriorContent /\ usedIds = {} /\ wi = 0

\* one iteration of "for group in groups"
AggGroup ==
    /\ pc = "agg" /\ gi < NumGroups
    /\ \E g \in GroupsFrom((1..MaxVec) \ usedIds) :
         LET r == Aggregate(g, lookup, pair_map, pairOrder)
         IN /\ group' = g
            /\ usedIds' = usedIds \cup Range(g)
            /\ pair_map' = r[1]
            /\ pairOrder' = r[2]
    /\ gi' = gi + 1
    /\ UNCHANGED <<pc, lookup, opened, outFile, wi, gVars, fVars, bVars>>

\* the list of groups is exhausted: len(groups) = gi
AggDone ==
    /\ pc = "agg"
    /\ pc' = "open"
    /\ UNCHANGED <<lookup, wVars, gVars, fVars, bVars>>

\* open(output_path, "w") returns
OpenOutput ==
    /\ pc = "open"
    /\ outFile' = OpenForWrite(outFile)
    /\ opened' = TRUE
    /\ wi' = 1
    /\ pc' = "write"
    /\ UNCHANGED <<lookup, group, gi, pair_map, pairOrder, usedIds, gVars, fVars, bVars>>

\* one iteration of "for (fid_a, fid_b), clip_pairs in pair_map.items()"
WriteRecord ==
    /\ pc = "write" /\ wi <= Len(pairOrder)
    /\ outFile' = Append(outFile, JsonLine(RecordOf(pairOrder[wi], pair_map, lookup)))
    /\ wi' = wi + 1
    /\ UNCHANGED <<pc, lookup, group, gi, pair_map, pairOrder, opened, usedIds, gVars, fVars, bVars>>

\* the with block ends: the file is flushed and closed
WriteDone ==
    /\ pc = "write" /\ wi > Len(pairOrder)
    /\ pc' = "done"
    /\ UNCHANGED <<lookup, wVars, gVars, fVars, bVars>>

\* the run fails: open raises, a write raises, or the process is stopped.
\* Of the lines written so far any prefix may have reached the file.
FailWrite ==
    /\ pc \in {"agg", "open", "write"}
    /\ pc' = "failed"
    /\ \E k \in 0..Len(outFile) :
         outFile' = IF opened THEN SubSeq(outFile, 1, k) ELSE outFile
    /\ UNCHANGED <<lookup, group, gi, pair_map, pairOrder, opened, usedIds, wi, gVars, fVars, bVars>>

NextWrite == AggGroup \/ AggDone \/ OpenOutput \/ WriteRecord \/ WriteDone \/ FailWrite

SpecWrite == InitWrite /\ [][NextWrite]_vars

\* ---- properties of write_dedup_jsonl

\* the file ids of the lookup records of the ids of component g
FilesOfGroup(g) == {lookup[g[i]].file_id : i \in {j \in DOMAIN g : g[j] \in DOMAIN lookup}}

\* the lookup records of file f among the ids of component g
RecordsOfFile(g, f) ==
    {lookup[g[i]] : i \in {j \in DOMAIN g : g[j] \in DOMAIN lookup /\ lookup[g[j]].file_id = f}}

\* the position in g of the first id of file f
FirstSeen(g, f) ==
    CHOOSE i \in DOMAIN g :
        /\ g[i] \in DOMAIN lookup /\ lookup[g[i]].file_id = f
        /\ \A j \in 1..(i - 1) : ~(g[j] \in DOMAIN lookup /\ lookup[g[j]].file_id = f)

\* the clip pairs pair_map holds under key before and after a step
ClipsBefore(key) == IF key \in DOMAIN pair_map THEN pair_map[key] ELSE <<>>

ClipsAfter(key) == IF key \in DOMAIN pair_map' THEN pair_map'[key] ELSE <<>>

\* the records of the output file
RecordsWritten == [i \in DOMAIN outFile |-> outFile[i].line]

\* what the complete output is: one line per key of pair_map, in key order
AllLines == [i \in DOMAIN pairOrder |-> JsonLine(RecordOf(pairOrder[i], pair_map, lookup))]

IsPrefix(s, t) == Len(s) <= Len(t) /\ s = SubSeq(t, 1, Len(s))

\* C3: in the finished output one file pair A,B has a single record: no two
\* lines are about the same two files, in either labelling, so that the
\* evidence of every component linking A and B is merged into one record.
C3_OneRecordPerFilePair ==
    pc = "done" =>
        \A i, j \in DOMAIN outFile :
            {RecordsWritten[i].original_file_id, RecordsWritten[i].duplicate_file_id}
              = {RecordsWritten[j].original_file_id, RecordsWritten[j].duplicate_file_id}
            => i = j

\* C5: a component whose mapped entries do not span two distinct files leaves
\* pair_map as it was, and no key of pair_map and no line of the output pairs
\* a file with itself.
C5_NoWithinFilePairs ==
    [][ /\ (gi' = gi + 1 /\ Cardinality(FilesOfGroup(group')) < 2)
            => (pair_map' = pair_map /\ pairOrder' = pairOrder)
        /\ \A i \in DOMAIN pairOrder' : pairOrder'[i][1] # pairOrder'[i][2]
        /\ \A k \in DOMAIN pair_map' : \A i \in DOMAIN pair_map'[k] :
              pair_map'[k][i].original.file_id # pair_map'[k][i].duplicate.file_id
        /\ opened' =>
              \A i \in DOMAIN outFile' :
                  outFile'[i].line.original_file_id # outFile'[i].line.duplicate_file_id
      ]_vars

\* a component of two mapped ids of one file has been handled after a
\* component that linked two files, and the output was written
C5_Witness ==
    /\ pc = "done" /\ gi = 2 /\ Len(outFile) = 1
    /\ Len(group) = 2 /\ Range(group) \subseteq DOMAIN lookup
    /\ Cardinality(FilesOfGroup(group)) = 1

\* C6: handling a component appends, for every two distinct files a and b of
\* its mapped entries with a seen first, exactly the clip pairs (ca, cb) with
\* ca an entry of a and cb an entry of b, each once, under the key (a, b) and
\* with a on the original side; nothing else of pair_map changes.
C6_CrossProduct ==
    [][ gi' = gi + 1 =>
          LET g == group'
              fs == FilesOfGroup(g)
              keys == {<<a, b>> \in fs \X fs : a # b /\ FirstSeen(g, a) < FirstSeen(g, b)}
          IN /\ DOMAIN pair_map' = DOMAIN pair_map \cup keys
             /\ \A k \in DOMAIN pair_map' \ keys : pair_map'[k] = pair_map[k]
             /\ \A k \in keys :
                  LET m == Cardinality(RecordsOfFile(g, k[1]))
                      n == Cardinality(RecordsOfFile(g, k[2]))
                      old == ClipsBefore(k)
                      new == ClipsAfter(k)
                      added == SubSeq(new, Len(old) + 1, Len(new))
                  IN /\ IsPrefix(old, new)
                     /\ Len(added) = m * n
                     /\ Range(added) = {ClipPair(ca, cb) : ca \in RecordsOfFile(g, k[1]),
                                                           cb \in RecordsOfFile(g, k[2])}
                     /\ \A i \in DOMAIN added : added[i].original.file_id = k[1]
      ]_vars

\* the scenario of the specification: the component [1, 2, 3] with ids 1 and
\* 2 in file 1 and id 3 in file 2 gave one record for (1, 2) with the clip
\* pairs (1, 3) and (2, 3)
C6_Witness ==
    /\ pc = "done" /\ gi = 1 /\ group = <<1, 2, 3>>
    /\ DOMAIN lookup = {1, 2, 3}
    /\ lookup[1].file_id = 1 /\ lookup[2].file_id = 1 /\ lookup[3].file_id = 2
    /\ Len(outFile) = 1
    /\ outFile[1].line.original_file_id = 1 /\ outFile[1].line.duplicate_file_id = 2
    /\ outFile[1].line.clips = <<ClipPair(lookup[1], lookup[3]), ClipPair(lookup[2], lookup[3])>>

\* C7 as stated: after a failure the output file holds what it held before
\* the call or the complete new set of records.
C7_PriorOrComplete ==
    pc = "failed" => (outFile = PriorContent \/ outFile = AllLines)

\* C7 amended: until open returns the file holds its prior content; from
\* then on it holds a prefix of the new lines, the complete output once the
\* writer has finished.
C7_PriorThenPrefix ==
    /\ ~opened => outFile = PriorContent
    /\ opened => IsPrefix(outFile, AllLines)
    /\ pc = "done" => outFile = AllLines

\* a failure after open and after one of two records was written
C7_Witness ==
    /\ pc = "failed" /\ opened /\ Len(pairOrder) = 2 /\ Len(outFile) = 1

\* ========================================================================
\* update_duplicate_flags
\* ========================================================================

\* the members a JSON object of the file may list, as text: key and token
JsonMembers ==
    {<<"file_id", "1">>, <<"file_id", "2">>, <<"duplicate", "true">>, <<"duplicate", "false">>}

\* the lines of the file: whitespace only, not JSON, or a JSON object of up
\* to two members (a key may be repeated)
BlankLine == [kind |-> "blank", members |-> <<>>]

MalformedLine == [kind |-> "malformed", members |-> <<>>]

ObjectLine(ms) == [kind |-> "object", members |-> ms]

FileLines == {BlankLine, MalformedLine} \cup {ObjectLine(ms) : ms \in SeqsUpTo(JsonMembers, 2)}

\* the mappings file_id -> bool
UpdateMaps == UNION {[D -> BOOLEAN] : D \in SUBSET {1, 2}}

\* the Python value of a JSON token
TokenValue(tok) ==
    CASE tok = "1" -> 1
      [] tok = "2" -> 2
      [] tok = "true" -> TRUE
      [] tok = "false" -> FALSE

\* the JSON token of a Python value
ValueToken(key, val) ==
    IF key = "file_id" THEN (IF val = 1 THEN "1" ELSE "2")
    ELSE (IF val THEN "true" ELSE "false")

\* a dict is the list of its items, in insertion order
DictHas(d, key) == \E i \in DOMAIN d : d[i][1] = key

DictGet(d, key) == d[CHOOSE i \in DOMAIN d : d[i][1] = key][2]

\* d[key] = val: an existing key keeps its place, a new one goes last
DictSet(d, key, val) ==
    IF DictHas(d, key)
    THEN [i \in DOMAIN d |-> IF d[i][1] = key THEN <<key, val>> ELSE d[i]]
    ELSE Append(d, <<key, val>>)

\* json.loads of an object: the members in order, a repeated key overwritten
RECURSIVE LoadMembers(_, _)
LoadMembers(ms, d) ==
    IF ms = <<>> THEN d
    ELSE LoadMembers(Tail(ms), DictSet(d, Head(ms)[1], TokenValue(Head(ms)[2])))

JsonLoads(ln) == LoadMembers(ln.members, <<>>)

\* json.dumps(entry) + "\n"
JsonDumps(d) == ObjectLine([i \in DOMAIN d |-> <<d[i][1], ValueToken(d[i][1], d[i][2])>>])

\* a bug: a line that does not parse is taken as an empty object
ParseFails_Never(ln) == FALSE

\* json.loads(line) raises
ParseFails(ln) == ln.kind = "malformed"

\* a bug: entry["duplicate"] = updates.get(fid, False)
UpdatedEntry_Default(e, upd) ==
    IF DictHas(e, "file_id") /\ DictGet(e, "file_id") \in DOMAIN upd
    THEN DictSet(e, "duplicate", upd[DictGet(e, "file_id")])
    ELSE DictSet(e, "duplicate", FALSE)

\* the body of "for entry in entries"
UpdatedEntry(e, upd) ==
    IF DictHas(e, "file_id") /\ DictGet(e, "file_id") \in DOMAIN upd
    THEN DictSet(e, "duplicate", upd[DictGet(e, "file_id")])
    ELSE e

InitFlags ==
    /\ pc = "read" /\ lookup = <<>>
    /\ GIdle /\ WIdle /\ BIdle
    /\ descFile \in SeqsUpTo(FileLines, MaxLines)
    /\ descFile0 = descFile
    /\ updates \in UpdateMaps
    /\ entries = <<>> /\ li = 1 /\ ui = 0 /\ wj = 0 /\ returned = <<>>

\* one iteration of "for line in f"
ReadLine ==
    /\ pc = "read" /\ li <= Len(descFile)
    /\ IF descFile[li].kind = "blank"
       THEN UNCHANGED <<pc, entries>>
       ELSE IF ParseFails(descFile[li])
       THEN pc' = "JSONDecodeError" /\ UNCHANGED entries
       ELSE entries' = Append(entries, JsonLoads(descFile[li])) /\ UNCHANGED pc
    /\ li' = li + 1
    /\ UNCHANGED <<lookup, descFile, descFile0, updates, ui, wj, returned, gVars, wVars, bVars>>

\* the file is read to its end and closed
ReadDone ==
    /\ pc = "read" /\ li > Len(descFile)
    /\ pc' = "update" /\ ui' = 1
    /\ UNCHANGED <<lookup, descFile, descFile0, updates, entries, li, wj, returned, gVars, wVars, bVars>>

\* one iteration of "for entry in entries" of the update
UpdateEntry ==
    /\ pc = "update" /\ ui <= Len(entries)
    /\ entries' = [entries EXCEPT ![ui] = UpdatedEntry(@, updates)]
    /\ ui' = ui + 1
    /\ UNCHANGED <<pc, lookup, descFile, descFile0, updates, li, wj, returned, gVars, wVars, bVars>>

\* open(descriptions_path, "w") returns
OpenRewrite ==
    /\ pc = "update" /\ ui > Len(entries)
    /\ descFile' = OpenForWrite(descFile)
    /\ pc' = "rewrite" /\ wj' = 1
    /\ UNCHANGED <<lookup, descFile0, updates, entries, li, ui, returned, gVars, wVars, bVars>>

\* one iteration of "for entry in entries" of the write
RewriteEntry ==
    /\ pc = "rewrite" /\ wj <= Len(entries)
    /\ descFile' = Append(descFile, JsonDumps(entries[wj]))
    /\ wj' = wj + 1
    /\ UNCHANGED <<pc, lookup, descFile0, updates, entries, li, ui, returned, gVars, wVars, bVars>>

\* return entries
ReturnEntries ==
    /\ pc = "rewrite" /\ wj > Len(entries)
    /\ returned' = entries
    /\ pc' = "done"
    /\ UNCHANGED <<lookup, descFile, descFile0, updates, entries, li, ui, wj, gVars, wVars, bVars>>

NextFlags == ReadLine \/ ReadDone \/ UpdateEntry \/ OpenRewrite \/ RewriteEntry \/ ReturnEntries

SpecFlags == InitFlags /\ [][NextFlags]_vars

\* ---- properties of update_duplicate_flags

\* the entries of the file as it was before the call: its non-blank lines
EntriesBefore == SelectSeq(descFile0, LAMBDA ln : ln.kind = "object")

SameItem(d, e, key) ==
    /\ DictHas(d, key) <=> DictHas(e, key)
    /\ DictHas(d, key) => DictGet(d, key) = DictGet(e, key)

\* C8: if a non-blank line of the file does not parse, the call ends in the
\* parse error at the latest when it reaches that line, never opens the file
\* for writing, and the file stays as it was before the call.
C8_ParseFailureLeavesFile ==
    (\E i \in DOMAIN descFile0 : descFile0[i].kind = "malformed") =>
        /\ pc \in {"read", "JSONDecodeError"}
        /\ descFile = descFile0
        /\ (pc = "read" => \A i \in 1..(li - 1) : descFile0[i].kind # "malformed")

\* the call failed on the second line, after it had loaded the first
C8_Witness ==
    /\ pc = "JSONDecodeError" /\ Len(entries) = 1 /\ li = 3
    /\ DictHas(entries[1], "file_id") /\ DictGet(entries[1], "file_id") \in DOMAIN updates

\* C9: when the call returns, the list has one entry per non-blank line, in
\* the order of the lines; an entry whose file_id is a key of the mapping
\* differs from the line's entry in its duplicate item only, which is the
\* mapped value; every other entry is the line's entry; and the file holds
\* exactly the returned entries, one per line.
C9_OnlyDuplicateOfMappedEntries ==
    pc = "done" =>
        /\ Len(returned) = Len(EntriesBefore)
        /\ \A i \in DOMAIN returned :
             LET e0 == JsonLoads(EntriesBefore[i])
                 e == returned[i]
             IN IF DictHas(e0, "file_id") /\ DictGet(e0, "file_id") \in DOMAIN updates
                THEN /\ DictHas(e, "duplicate")
                     /\ DictGet(e, "duplicate") = updates[DictGet(e0, "file_id")]
                     /\ SameItem(e, e0, "file_id")
                     /\ \A j \in DOMAIN e : e[j][1] \in {"file_id", "duplicate"}
                ELSE e = e0
        /\ Len(descFile) = Len(returned)
        /\ \A i \in DOMAIN descFile :
             descFile[i].kind = "object" /\ JsonLoads(descFile[i]) = returned[i]

\* the call returned two entries: the flag of the first was changed by the
\* mapping, the second has no file_id and passed through, and the mapping
\* has a key that matches no entry
C9_Witness ==
    /\ pc = "done" /\ Len(returned) = 2
    /\ descFile0[1] = ObjectLine(<<<<"file_id", "1">>, <<"duplicate", "false">>>>)
    /\ DOMAIN updates = {1, 2} /\ updates[1]
    /\ returned[1] = <<<<"file_id", 1>>, <<"duplicate", TRUE>>>>
    /\ returned[2] = <<<<"duplicate", FALSE>>>>

\* ========================================================================
\* build_id_lookup
\* ========================================================================

\* a faiss_id as .get("faiss_id") returns it: an id, or None
MaybeIds == (1..MaxVec) \cup {None}

\* the lookup record of an image of file f indexed under v
ImageRecord(v, f) ==
    [file_id |-> f, file_name |-> FileName(f), clip_idx |-> None, faiss_id |-> v,
     media_type |-> "image", prefix |-> "", duration |-> 0, variance |-> 0,
     start_s |-> None, end_s |-> None]

\* the database entries: has lists which of the keys file_id and file_name
\* the entry holds; a video lists the faiss_id of each of its clips, an image
\* has one of its own, an entry of another media_type is not read further
DatabaseEntries ==
    LET shape == [media_type : {"video"}, clips : SeqsUpTo(MaybeIds, 2), faiss_id : {None}]
                 \cup [media_type : {"image"}, clips : {<<>>}, faiss_id : MaybeIds]
                 \cup [media_type : {"other"}, clips : {<<>>}, faiss_id : {None}]
    IN {[media_type |-> sh.media_type, clips |-> sh.clips, faiss_id |-> sh.faiss_id,
         has |-> h, file_id |-> f] :
        sh \in shape, h \in SUBSET {"file_id", "file_name"}, f \in Files}

\* lookup[fid] = rec
LookupSet(lk, fid, rec) == [k \in DOMAIN lk \cup {fid} |-> IF k = fid THEN rec ELSE lk[k]]

\* a bug: only entry["file_id"] is read before the record is stored
RequiredMissing_FileIdOnly(e) == "file_id" \notin e.has

\* entry["file_id"] or entry["file_name"] raises KeyError
RequiredMissing(e) == ~({"file_id", "file_name"} \subseteq e.has)

\* "for clip in entry.get("clips", [])" from clip j on: the lookup, and whether
\* a KeyError was raised
RECURSIVE AddClips(_, _, _)
AddClips(e, j, lk) ==
    IF j > Len(e.clips) THEN <<lk, FALSE>>
    ELSE IF e.clips[j] = None THEN AddClips(e, j + 1, lk)
    ELSE IF RequiredMissing(e) THEN <<lk, TRUE>>
    ELSE AddClips(e, j + 1, LookupSet(lk, e.clips[j], ClipRecord(e.clips[j], e.file_id)))

\* the body of "for entry in database"
AddEntry(e, lk) ==
    IF e.media_type = "video" THEN AddClips(e, 1, lk)
    ELSE IF e.media_type = "image" THEN
        IF e.faiss_id = None THEN <<lk, FALSE>>
        ELSE IF RequiredMissing(e) THEN <<lk, TRUE>>
        ELSE <<LookupSet(lk, e.faiss_id, ImageRecord(e.faiss_id, e.file_id)), FALSE>>
    ELSE <<lk, FALSE>>

InitLookup ==
    /\ pc = "loop" /\ lookup = <<>>
    /\ GIdle /\ WIdle /\ FIdle /\ BIdle

\* one iteration of "for entry in database"
LookupEntry ==
    /\ pc = "loop" /\ di < MaxEntries
    /\ \E e \in DatabaseEntries :
         LET r == AddEntry(e, lookup)
         IN /\ entry' = e
            /\ lookup' = r[1]
            /\ pc' = IF r[2] THEN "KeyError" ELSE "loop"
    /\ di' = di + 1
    /\ UNCHANGED <<gVars, wVars, fVars>>

\* the database is exhausted: return lookup
LookupDone ==
    /\ pc = "loop"
    /\ pc' = "done"
    /\ UNCHANGED <<lookup, gVars, wVars, fVars, bVars>>

NextLookup == LookupEntry \/ LookupDone

SpecLookup == InitLookup /\ [][NextLookup]_vars

\* ---- properties of build_id_lookup

\* the entry has a vector id that is not None: a clip's, or the image's own
CarriesVectorId(e) ==
    \/ e.media_type = "video" /\ \E j \in DOMAIN e.clips : e.clips[j] # None
    \/ e.media_type = "image" /\ e.faiss_id # None

\* C10 as stated: an entry that lacks file_id or file_name ends
\* build_id_lookup in the required-field error, whether or not the entry
\* carries a vector id.
C10_MissingFieldIsFatal ==
    (di > 0 /\ entry.has # {"file_id", "file_name"}) => pc = "KeyError"

\* C10 amended: handling an entry ends in the required-field error exactly
\* when the entry lacks file_id or file_name and carries a vector id; an
\* entry that carries none is skipped, the lookup unchanged and no error
\* raised, also when it lacks file_id or file_name; after the error
\* build_id_lookup returns no lookup.
C10_FatalOnlyWithVectorId ==
    [][ /\ di' = di + 1 =>
             /\ (pc' = "KeyError") <=>
                   (entry'.has # {"file_id", "file_name"} /\ CarriesVectorId(entry'))
             /\ ~CarriesVectorId(entry') => (lookup' = lookup /\ pc' = "loop")
        /\ pc = "KeyError" => pc' = "KeyError"
      ]_vars

\* the second entry raised the error after the first was stored, though it
\* has its file_id: it lacks file_name only
C10_Witness ==
    /\ pc = "KeyError" /\ di = 2 /\ lookup # <<>>
    /\ entry.has = {"file_id"} /\ entry.media_type = "video"

====
